---- MODULE Spec2Model ----
(***************************************************************************)
(* nlp-insights: derivation of MedicationStatement resources from ACD      *)
(* output (create_medication.py) and selection of the codeable concepts    *)
(* that are sent to NLP (fields_of_interest.py).                           *)
(*                                                                         *)
(* Python values are modelled as follows.  A str is a sequence of tokens   *)
(* (one-character tokens where the code looks inside the string), None is  *)
(* PyNone and a key that a dict does not have is Absent.  A dict, a list   *)
(* or an object is a record; objects that the code tells apart by identity *)
(* carry an oid.                                                           *)
(***************************************************************************)
EXTENDS Integers, Sequences, FiniteSets, TLC

\* ------------------------------------------------------------------------
\* Bounds of the model
\* ------------------------------------------------------------------------
MaxAttrs == 3       \* attributes yielded by get_attribute_sources in a pass
MaxCalls == 2       \* invocations of create_med_statements_from_insights
MaxBundle == 2      \* resources in a posted bundle
MaxPasses == 2      \* times a resource goes through discoverInsights

\* ------------------------------------------------------------------------
\* Python values
\* ------------------------------------------------------------------------
PyNone == <<"<None>">>
Absent == <<"<absent>">>

\* dict.get(key): None when the key is absent
Get(d, key) == IF d[key] = Absent THEN PyNone ELSE d[key]

\* str.split(sep): the pieces between the separators, at least one piece
RECURSIVE split(_, _)
split(s, sep) ==
    IF \A i \in 1..Len(s) : s[i] # sep
    THEN <<s>>
    ELSE LET i == CHOOSE k \in 1..Len(s) :
                      s[k] = sep /\ \A j \in 1..(k - 1) : s[j] # sep
         IN  <<SubSeq(s, 1, i - 1)>> \o split(SubSeq(s, i + 1, Len(s)), sep)

UMLS_URL == "http://terminology.hl7.org/CodeSystem/umls"
RXNORM_URL == "http://www.nlm.nih.gov/research/umls/rxnorm"

\* ------------------------------------------------------------------------
\* Inputs of a pass
\* ------------------------------------------------------------------------
Cuis == {"C1", "C2"}                    \* MedicationAnnotation.cui
Subjects == {"Patient/1", "Patient/2"}               \* text_source.source_resource.subject
Begins == {7}                           \* attr.begin of the attribute's span
InsightIdStarts == {1}                  \* nlp_config.insight_id_start

EmptyDict ==
    [mapping |-> TRUE, cui |-> Absent, drugSurfaceForm |-> Absent,
     rxNormID |-> Absent]

\* a name1 entry that is not a mapping (a str, a list, None)
NotAMapping ==
    [mapping |-> FALSE, cui |-> Absent, drugSurfaceForm |-> Absent,
     rxNormID |-> Absent]

Drug(cui, drugSurfaceForm, rxNormID) ==
    [mapping |-> TRUE, cui |-> cui, drugSurfaceForm |-> drugSurfaceForm,
     rxNormID |-> rxNormID]

\* name1 entries that are mappings: with and without a cui and a surface
\* form; rxNormID absent, null, empty, one id, two ids, the same id twice
DrugDicts ==
    { Drug(<<"U1">>, <<"aspirin">>, <<"1", ",", "2">>),
      Drug(<<"U1">>, <<"ASA">>, <<"1">>),
      Drug(Absent, Absent, <<"1", ",", "1">>),
      Drug(<<"U2">>, <<"aspirin">>, Absent),
      Drug(<<"U1">>, <<"aspirin">>, PyNone),
      Drug(Absent, <<"aspirin">>, <<>>) }

Name1Values ==
    {[t |-> "none"], [t |-> "list", v |-> <<>>]}
        \cup {[t |-> "list", v |-> <<e>>] : e \in DrugDicts \cup {NotAMapping}}

\* MedicationAnnotation.drug: None or a list of dicts with a name1 key
DrugValues ==
    {[t |-> "none"], [t |-> "list", v |-> <<>>]}
        \cup {[t |-> "list", v |-> <<[name1 |-> n]>>] : n \in Name1Values}

MedicationAnnotations ==
    [kind : {"MedicationAnnotation"}, cui : Cuis, drug : DrugValues]

ConceptAnnotations ==
    [kind : {"ConceptAnnotation"}, cui : Cuis, drug : {[t |-> "none"]}]

Annotations == MedicationAnnotations \cup ConceptAnnotations

WellFormed(cui) ==
    [kind |-> "MedicationAnnotation", cui |-> cui,
     drug |-> [t |-> "list",
               v |-> <<[name1 |-> [t |-> "list",
                                   v |-> <<Drug(<<"U1">>, <<"ASA">>, <<"1">>)>>]]>>]]

\* AttrSourceConcept.sources: the values of the mapping in insertion order,
\* with no, one or two entries
SourcesValues ==
    {<<>>} \cup {<<a>> : a \in Annotations}
           \cup {<<a, b>> : a \in {WellFormed("C1")} \cup ConceptAnnotations,
                            b \in {WellFormed("C2")} \cup ConceptAnnotations}

AttributeSources == [begin : Begins, sources : SourcesValues]

NoAttribute == [begin |-> -1, sources |-> <<>>]

\* ------------------------------------------------------------------------
\* fhir_object_utils and insight_id (helpers of the package)
\* ------------------------------------------------------------------------

\* append_coding: adds the coding unless the concept already has a coding
\* with that system and code
append_coding(codeable_concept, system, code, display) ==
    IF \E i \in 1..Len(codeable_concept.coding) :
           /\ codeable_concept.coding[i].system = system
           /\ codeable_concept.coding[i].code = code
    THEN codeable_concept
    ELSE [codeable_concept EXCEPT
             !.coding = Append(@, [system |-> system, code |-> code,
                                   display |-> display])]

\* add_insight_to_meta: one more insight extension in the resource's meta
add_insight_to_meta(resource, insight_id_ext, insight_detail) ==
    [resource EXCEPT
        !.meta = Append(@, [id |-> insight_id_ext, detail |-> insight_detail])]

\* append_derived_by_nlp_category_extension: one more category marker
append_derived_by_nlp_category_extension(resource) ==
    [resource EXCEPT !.category = @ + 1]

\* insight_id_maker_derive_resource: a generator of ids; its state is the
\* suffix of the id it yields next
insight_id_maker_derive_resource(cui, start) == [cui |-> cui, next |-> start]

\* the id that next(id_maker) yields
NextId(id_maker) == <<id_maker.cui, id_maker.next>>

\* the generator after next(id_maker)
Advance(id_maker) == [id_maker EXCEPT !.next = @ + 1]

\* ------------------------------------------------------------------------
\* create_medication.py
\* ------------------------------------------------------------------------

\* The drug dictionary of the annotation, {} when drug[0].get("name1")[0]
\* raises TypeError, IndexError or AttributeError (logged is then TRUE).
\* The name1 entry is returned as it is, mapping or not.
_get_drug_from_annotation(annotation) ==
    LET drug == annotation.drug
        failed == [val |-> EmptyDict, logged |-> TRUE]
    IN  IF drug.t = "none" THEN failed                \* None[0]: TypeError
        ELSE IF Len(drug.v) = 0 THEN failed           \* [][0]: IndexError
        ELSE LET name1 == drug.v[1].name1
             IN  IF name1.t = "none" THEN failed      \* None[0]: TypeError
                 ELSE IF Len(name1.v) = 0 THEN failed \* [][0]: IndexError
                 ELSE [val |-> name1.v[1], logged |-> FALSE]

NoStatement ==
    [oid |-> <<0, 0>>, subject |-> "", status |-> "",
     medicationCodeableConcept |-> [text |-> PyNone, coding |-> <<>>],
     meta |-> <<>>, category |-> 0]

\* A new statement (the object oid) with status 'unknown' and the text of
\* the drug; acd_drug.get raises AttributeError when the name1 entry is not
\* a mapping.
_create_minimum_medication_statement(subject, annotation, oid) ==
    LET acd_drug == _get_drug_from_annotation(annotation).val
    IN  IF ~acd_drug.mapping
        THEN [exc |-> "AttributeError", val |-> NoStatement]
        ELSE [exc |-> "",
              val |-> [oid |-> oid, subject |-> subject, status |-> "unknown",
                       medicationCodeableConcept |->
                           [text |-> Get(acd_drug, "drugSurfaceForm"),
                            coding |-> <<>>],
                       meta |-> <<>>, category |-> 0]]

\* the for loop over the pieces of rxNormID
RECURSIVE AppendRxNormCodes(_, _)
AppendRxNormCodes(codeable_concept, code_ids) ==
    IF code_ids = <<>>
    THEN codeable_concept
    ELSE AppendRxNormCodes(
             append_coding(codeable_concept, RXNORM_URL, Head(code_ids), PyNone),
             Tail(code_ids))

\* _add_codings_drug with the rxNorm codes appended to the list directly
_add_codings_drug_NoDedup(acd_drug, codeable_concept) ==
    IF ~acd_drug.mapping
    THEN [exc |-> "AttributeError", val |-> codeable_concept]
    ELSE LET with_cui ==
                 IF Get(acd_drug, "cui") # PyNone
                 THEN append_coding(codeable_concept, UMLS_URL, acd_drug.cui,
                                    Get(acd_drug, "drugSurfaceForm"))
                 ELSE codeable_concept
             code_ids == split(acd_drug.rxNormID, ",")
         IN  IF acd_drug.rxNormID = Absent
             THEN [exc |-> "", val |-> with_cui]
             ELSE IF acd_drug.rxNormID = PyNone
             THEN [exc |-> "AttributeError", val |-> with_cui]
             ELSE [exc |-> "",
                   val |-> [with_cui EXCEPT
                               !.coding = @ \o
                                   [i \in 1..Len(code_ids) |->
                                       [system |-> RXNORM_URL,
                                        code |-> code_ids[i],
                                        display |-> PyNone]]]]

\* acd_drug.get raises AttributeError when acd_drug is not a mapping, and
\* acd_drug["rxNormID"].split raises AttributeError when the value is None
\* (the UMLS coding has been appended by then).
_add_codings_drug(acd_drug, codeable_concept) ==
    IF ~acd_drug.mapping
    THEN [exc |-> "AttributeError", val |-> codeable_concept]
    ELSE LET with_cui ==
                 IF Get(acd_drug, "cui") # PyNone
                 THEN append_coding(codeable_concept, UMLS_URL, acd_drug.cui,
                                    Get(acd_drug, "drugSurfaceForm"))
                 ELSE codeable_concept
         IN  IF acd_drug.rxNormID = Absent
             THEN [exc |-> "", val |-> with_cui]
             ELSE IF acd_drug.rxNormID = PyNone
             THEN [exc |-> "AttributeError", val |-> with_cui]
             ELSE [exc |-> "",
                   val |-> AppendRxNormCodes(with_cui,
                                             split(acd_drug.rxNormID, ","))]

\* the coding list of the statement's medicationCodeableConcept
Coding(med_statement) == med_statement.medicationCodeableConcept.coding

\* _update_codings that also sets the text of the concept from the drug
_update_codings_SetsText(med_statement, annotation) ==
    LET acd_drug == _get_drug_from_annotation(annotation).val
        r == _add_codings_drug(acd_drug, med_statement.medicationCodeableConcept)
    IN  [exc |-> r.exc,
         val |-> [med_statement EXCEPT
                     !.medicationCodeableConcept =
                         [r.val EXCEPT !.text = Get(acd_drug, "drugSurfaceForm")]]]

_update_codings(med_statement, annotation) ==
    LET acd_drug == _get_drug_from_annotation(annotation).val
        r == _add_codings_drug(acd_drug, med_statement.medicationCodeableConcept)
    IN  [exc |-> r.exc,
         val |-> [med_statement EXCEPT !.medicationCodeableConcept = r.val]]

\* _add_insight_to_medication_statement that attaches the insight only
\* when the mention brings a new coding
_add_insight_to_medication_statement_OnlyNewCodes(med_statement, attr, med_ind, insight_id_string) ==
    LET r == _update_codings(med_statement, med_ind)
    IN  IF Coding(r.val) = Coding(med_statement)
        THEN r
        ELSE [r EXCEPT !.val = add_insight_to_meta(@, insight_id_string,
                                                   attr.begin)]

\* _add_insight_to_medication_statement that also marks the statement as
\* derived by NLP
_add_insight_to_medication_statement_Marks(med_statement, attr, med_ind, insight_id_string) ==
    _update_codings(
        append_derived_by_nlp_category_extension(
            add_insight_to_meta(med_statement, insight_id_string, attr.begin)),
        med_ind)

\* the insight (id, span of the attribute) goes to the meta, then the codings
_add_insight_to_medication_statement(med_statement, attr, med_ind, insight_id_string) ==
    _update_codings(
        add_insight_to_meta(med_statement, insight_id_string, attr.begin),
        med_ind)

\* ------------------------------------------------------------------------
\* fields_of_interest.py
\* ------------------------------------------------------------------------
ResourceTypes == {"AllergyIntolerance", "Condition", "Patient"}

\* the value of a code field: no CodeableConcept, or one with a text
NoCode == [t |-> "none", text |-> PyNone, coding |-> <<>>]

Texts == {PyNone, <<>>, <<"peanut">>}

CodeableConcepts == [t : {"CodeableConcept"}, text : Texts, coding : {<<>>}]

Resources ==
    [type : {"AllergyIntolerance", "Condition"},
     code : CodeableConcepts \cup {NoCode}]
        \cup {[type |-> "Patient", code |-> NoCode]}

\* bool(x) of an optional str
Truthy(text) == text # PyNone /\ text # <<>>

CodeableConceptRef(resource, type, code_ref, path) ==
    [resource |-> resource, type |-> type, code_ref |-> code_ref, path |-> path]

\* allergy_intolerance.code.text raises AttributeError when code is None
_get_allergy_intolerance_concepts_to_analyze(allergy_intolerance) ==
    IF allergy_intolerance.code.t = "none"
    THEN [exc |-> "AttributeError", val |-> <<>>]
    ELSE IF Truthy(allergy_intolerance.code.text)
    THEN [exc |-> "",
          val |-> <<CodeableConceptRef(allergy_intolerance, "ALLERGEN",
                                       allergy_intolerance.code,
                                       "AllergyIntolerance.code")>>]
    ELSE [exc |-> "", val |-> <<>>]

\* _get_condition_concepts_to_analyze with a reference to a new, empty
\* CodeableConcept instead of the code of the condition
_get_condition_concepts_to_analyze_NewConcept(condition) ==
    IF condition.code.t # "none" /\ Truthy(condition.code.text)
    THEN [exc |-> "",
          val |-> <<CodeableConceptRef(condition, "CONDITION",
                                       [condition.code EXCEPT !.text = PyNone],
                                       "Condition.code")>>]
    ELSE [exc |-> "", val |-> <<>>]

_get_condition_concepts_to_analyze(condition) ==
    IF condition.code.t # "none" /\ Truthy(condition.code.text)
    THEN [exc |-> "",
          val |-> <<CodeableConceptRef(condition, "CONDITION", condition.code,
                                       "Condition.code")>>]
    ELSE [exc |-> "", val |-> <<>>]

\* a dict of extractors is a function from some resource types to the
\* names of extractor functions; this is the dict that the module builds
\* when it is loaded
_concept_extractors ==
    [type \in {"AllergyIntolerance", "Condition"} |->
        IF type = "AllergyIntolerance"
        THEN "_get_allergy_intolerance_concepts_to_analyze"
        ELSE "_get_condition_concepts_to_analyze"]

\* the module's global _concept_extractors
VARIABLE module_extractors

\* extractor(resource)
CallExtractor(extractor, resource) ==
    IF extractor = "_get_allergy_intolerance_concepts_to_analyze"
    THEN _get_allergy_intolerance_concepts_to_analyze(resource)
    ELSE _get_condition_concepts_to_analyze(resource)

NotSupplied == [t |-> "none", v |-> <<>>]

Supplied(dict) == [t |-> "dict", v |-> dict]

\* the dicts a caller passes: subsets of the module's extractors
ExtractorArgs ==
    {NotSupplied}
        \cup {Supplied([type \in types |-> _concept_extractors[type]]) :
                  types \in SUBSET {"AllergyIntolerance", "Condition"}}

\* get_concepts_for_nlp_analysis with extractors[type(resource)], which
\* raises KeyError for a type without an extractor
get_concepts_for_nlp_analysis_Subscript(resource, concept_extractors) ==
    LET extractors ==
            IF concept_extractors.t = "dict"
                   /\ DOMAIN concept_extractors.v # {}
            THEN concept_extractors.v
            ELSE module_extractors
    IN  IF resource.type \in DOMAIN extractors
        THEN CallExtractor(extractors[resource.type], resource)
        ELSE [exc |-> "KeyError", val |-> <<>>]

\* an empty dict is falsy, so it selects the module's extractors as well
get_concepts_for_nlp_analysis(resource, concept_extractors) ==
    LET extractors ==
            IF concept_extractors.t = "dict"
                   /\ DOMAIN concept_extractors.v # {}
            THEN concept_extractors.v
            ELSE module_extractors
    IN  IF resource.type \in DOMAIN extractors
        THEN CallExtractor(extractors[resource.type], resource)
        ELSE [exc |-> "", val |-> <<>>]

\* ------------------------------------------------------------------------
\* State
\* ------------------------------------------------------------------------
VARIABLES
    pc,                     \* "idle", "loop", "returned" or "raised"
    calls,                  \* invocations started so far
    text_source,            \* argument: [subject] of the source resource
    nlp_config,             \* argument: [insight_id_start]
    cui_source,             \* loop variable: the attribute taken last
    n_attrs,                \* attributes taken from get_attribute_sources
    med_statement_tracker,  \* dict in insertion order: <<[key, fhir_resource, id_maker]>>
    result,                 \* what the invocation returned
    exc,                    \* the exception that left the invocation, or ""
    log,                    \* levels of the records sent to the logger
    n_created,              \* MedicationStatement objects constructed in the pass
    n_id_makers,            \* id generators constructed in the pass
    mentions,               \* per cui, attributes taken whose first source has it
    fresh_pass,             \* the same attributes processed by a first invocation
    loc_pc,                 \* "idle", "running", "done" or "raised"
    bundle,                 \* the resources of the posted bundle
    extractors_arg,         \* the concept_extractors argument of the calls
    pos,                    \* the resource of the bundle that is analysed next
    concepts,               \* per analysed resource, the references returned
    loc_exc,                \* the exception that ended the bundle, or ""
    svc_pc,                 \* "idle", "running", "responded" or "raised"
    svc_nlp,                \* the NLP service that is configured
    svc_request,            \* [as_bundle, resources] of the request
    svc_pos,                \* the resource of the request that is next
    svc_response,           \* what the NLP service found for the last text
    svc_entries,            \* the resources of the bundle that is returned
    svc_builder_calls,      \* resources built or updated for the request
    svc_pass                \* passes the posted resource has been through

medVars ==
    <<pc, calls, text_source, nlp_config, cui_source, n_attrs,
      med_statement_tracker, result, exc, log, n_created, n_id_makers,
      mentions, fresh_pass>>

locVars ==
    <<loc_pc, bundle, extractors_arg, pos, concepts, loc_exc,
      module_extractors>>

svcVars ==
    <<svc_pc, svc_nlp, svc_request, svc_pos, svc_response, svc_entries,
      svc_builder_calls, svc_pass>>

vars == <<medVars, locVars, svcVars>>

NoResult == [t |-> "noreturn", v |-> <<>>]
NoneResult == [t |-> "none", v |-> <<>>]

\* key in dict
TrackerHas(tracker, key) == \E i \in 1..Len(tracker) : tracker[i].key = key

\* the position of the key in the dict
TrackerIndex(tracker, key) == CHOOSE i \in 1..Len(tracker) : tracker[i].key = key

\* dict[key] = entry: a new key goes last, an old key keeps its position
TrackerSet(tracker, key, fhir_resource, id_maker) ==
    LET entry == [key |-> key, fhir_resource |-> fhir_resource,
                  id_maker |-> id_maker]
    IN  IF TrackerHas(tracker, key)
        THEN [tracker EXCEPT ![TrackerIndex(tracker, key)] = entry]
        ELSE Append(tracker, entry)

\* the first source that is a MedicationAnnotation, when there is one
SelectSource_FirstSupported(sources) ==
    IF \E k \in 1..Len(sources) : sources[k].kind = "MedicationAnnotation"
    THEN sources[CHOOSE k \in 1..Len(sources) :
                     /\ sources[k].kind = "MedicationAnnotation"
                     /\ \A j \in 1..(k - 1) :
                            sources[j].kind # "MedicationAnnotation"]
    ELSE Head(sources)

\* line 74: next(iter(cui_source.sources.values()))
SelectSource(sources) == Head(sources)

\* the locals of an invocation before its loop (lines 65-66)
FreshPass == [tracker |-> <<>>, exc |-> ""]

\* the test of line 84 left out: every mention is taken as a first mention
IsFirstMention_Always(tracker, med_ind) == TRUE

\* the test of line 84
IsFirstMention(tracker, med_ind) == ~TrackerHas(tracker, med_ind.cui)

\* ProcessMention with the id generator constructed for every mention
\* instead of taken from the tracker
ProcessMention_NewIdMaker(tracker, attr, med_ind, subject, start, oid) ==
    LET first == IsFirstMention(tracker, med_ind)
        made == _create_minimum_medication_statement(subject, med_ind, oid)
        logged == _get_drug_from_annotation(med_ind).logged
        id_maker == insight_id_maker_derive_resource(med_ind.cui, start)
    IN  IF first /\ made.exc # ""
        THEN [exc |-> made.exc, tracker |-> tracker, created |-> FALSE,
              logs |-> 0]
        ELSE LET tracked ==
                     IF first
                     THEN TrackerSet(tracker, med_ind.cui, made.val, id_maker)
                     ELSE tracker
                 i == TrackerIndex(tracked, med_ind.cui)
                 r == _add_insight_to_medication_statement(
                          tracked[i].fhir_resource, attr, med_ind,
                          NextId(id_maker))
             IN  [exc |-> r.exc,
                  tracker |-> [tracked EXCEPT
                                  ![i].fhir_resource = r.val,
                                  ![i].id_maker = Advance(id_maker)],
                  created |-> first,
                  logs |-> IF logged THEN (IF first THEN 2 ELSE 1) ELSE 0]

\* The body of the loop for an attribute whose first source med_ind is a
\* MedicationAnnotation: the tracker it leaves, the exception that leaves
\* it, whether it constructed a statement and an id generator, and how
\* many times _get_drug_from_annotation logged.
ProcessMention(tracker, attr, med_ind, subject, start, oid) ==
    LET first == IsFirstMention(tracker, med_ind)
        made == _create_minimum_medication_statement(subject, med_ind, oid)
        logged == _get_drug_from_annotation(med_ind).logged
    IN  IF first /\ made.exc # ""
        THEN [exc |-> made.exc, tracker |-> tracker, created |-> FALSE,
              logs |-> 0]
        ELSE LET tracked ==
                     IF first
                     THEN TrackerSet(tracker, med_ind.cui, made.val,
                              insight_id_maker_derive_resource(med_ind.cui, start))
                     ELSE tracker
                 i == TrackerIndex(tracked, med_ind.cui)
                 med_statement == tracked[i].fhir_resource
                 id_maker == tracked[i].id_maker
                 r == _add_insight_to_medication_statement(
                          med_statement, attr, med_ind, NextId(id_maker))
             IN  [exc |-> r.exc,
                  tracker |-> [tracked EXCEPT
                                  ![i].fhir_resource = r.val,
                                  ![i].id_maker = Advance(id_maker)],
                  created |-> first,
                  logs |-> IF logged THEN (IF first THEN 2 ELSE 1) ELSE 0]

RECURSIVE Repeat(_, _)
Repeat(x, n) == IF n = 0 THEN <<>> ELSE <<x>> \o Repeat(x, n - 1)

\* lines 117-121: the statements of the tracker, each with the category
MarkedStatements(tracker) ==
    [i \in 1..Len(tracker) |->
        append_derived_by_nlp_category_extension(tracker[i].fhir_resource)]

\* ------------------------------------------------------------------------
\* Actions
\* ------------------------------------------------------------------------
Init ==
    /\ pc = "idle"
    /\ calls = 0
    /\ text_source = [subject |-> ""]
    /\ nlp_config = [insight_id_start |-> 0]
    /\ cui_source = NoAttribute
    /\ n_attrs = 0
    /\ med_statement_tracker = <<>>
    /\ result = NoResult
    /\ exc = ""
    /\ log = <<>>
    /\ n_created = 0
    /\ n_id_makers = 0
    /\ mentions = [c \in Cuis |-> 0]
    /\ fresh_pass = FreshPass
    /\ loc_pc = "idle"
    /\ bundle = <<>>
    /\ extractors_arg = NotSupplied
    /\ pos = 1
    /\ concepts = <<>>
    /\ loc_exc = ""
    /\ module_extractors = _concept_extractors
    /\ svc_pc = "idle"
    /\ svc_nlp = "acd"
    /\ svc_request = [as_bundle |-> TRUE, resources |-> <<>>]
    /\ svc_pos = 1
    /\ svc_response = <<>>
    /\ svc_entries = <<>>
    /\ svc_builder_calls = 0
    /\ svc_pass = 0

\* Call with the tracker kept from the invocation before (a tracker that
\* is not a local of the function)
Call_KeepsTracker ==
    /\ UNCHANGED <<locVars, svcVars>>
    /\ pc \in {"idle", "returned", "raised"}
    /\ calls < MaxCalls
    /\ pc' = "loop"
    /\ calls' = calls + 1
    /\ \E subject \in Subjects : text_source' = [subject |-> subject]
    /\ \E start \in InsightIdStarts : nlp_config' = [insight_id_start |-> start]
    /\ cui_source' = NoAttribute
    /\ n_attrs' = 0
    /\ UNCHANGED med_statement_tracker
    /\ result' = NoResult
    /\ exc' = ""
    /\ log' = <<>>
    /\ n_created' = 0
    /\ n_id_makers' = 0
    /\ mentions' = [c \in Cuis |-> 0]
    /\ fresh_pass' = FreshPass

\* create_med_statements_from_insights is called: fresh locals (lines 63-66)
Call ==
    /\ UNCHANGED <<locVars, svcVars>>
    /\ pc \in {"idle", "returned", "raised"}
    /\ calls < MaxCalls
    /\ pc' = "loop"
    /\ calls' = calls + 1
    /\ \E subject \in Subjects : text_source' = [subject |-> subject]
    /\ \E start \in InsightIdStarts : nlp_config' = [insight_id_start |-> start]
    /\ cui_source' = NoAttribute
    /\ n_attrs' = 0
    /\ med_statement_tracker' = <<>>
    /\ result' = NoResult
    /\ exc' = ""
    /\ log' = <<>>
    /\ n_created' = 0
    /\ n_id_makers' = 0
    /\ mentions' = [c \in Cuis |-> 0]
    /\ fresh_pass' = FreshPass

\* SkipAttribute that pulls an id from every tracked generator
SkipAttribute_PullsIds ==
    /\ UNCHANGED <<locVars, svcVars>>
    /\ pc = "loop"
    /\ n_attrs < MaxAttrs
    /\ \E a \in AttributeSources :
        /\ a.sources = <<>>
        /\ cui_source' = a
    /\ n_attrs' = n_attrs + 1
    /\ log' = Append(log, "info")
    /\ med_statement_tracker' =
           [i \in 1..Len(med_statement_tracker) |->
               [med_statement_tracker[i] EXCEPT !.id_maker = Advance(@)]]
    /\ UNCHANGED <<pc, calls, text_source, nlp_config, result, exc, n_created,
                   n_id_makers, mentions, fresh_pass>>

\* lines 108-112: the attribute has no sources
SkipAttribute ==
    /\ UNCHANGED <<locVars, svcVars>>
    /\ pc = "loop"
    /\ n_attrs < MaxAttrs
    /\ \E a \in AttributeSources :
        /\ a.sources = <<>>
        /\ cui_source' = a
    /\ n_attrs' = n_attrs + 1
    /\ log' = Append(log, "info")
    /\ UNCHANGED <<pc, calls, text_source, nlp_config, med_statement_tracker,
                   result, exc, n_created, n_id_makers, mentions, fresh_pass>>

\* RaiseUnsupported that logs the attribute and goes on with the next one
RaiseUnsupported_Swallowed ==
    /\ UNCHANGED <<locVars, svcVars>>
    /\ pc = "loop"
    /\ n_attrs < MaxAttrs
    /\ \E a \in AttributeSources :
        /\ a.sources # <<>>
        /\ SelectSource(a.sources).kind # "MedicationAnnotation"
        /\ cui_source' = a
        /\ mentions' = [mentions EXCEPT ![SelectSource(a.sources).cui] = @ + 1]
    /\ n_attrs' = n_attrs + 1
    /\ log' = Append(log, "info")
    /\ UNCHANGED <<pc, exc, calls, text_source, nlp_config,
                   med_statement_tracker, result, n_created, n_id_makers,
                   fresh_pass>>

\* lines 77-80: the first source is not a MedicationAnnotation
RaiseUnsupported ==
    /\ UNCHANGED <<locVars, svcVars>>
    /\ pc = "loop"
    /\ n_attrs < MaxAttrs
    /\ \E a \in AttributeSources :
        /\ a.sources # <<>>
        /\ SelectSource(a.sources).kind # "MedicationAnnotation"
        /\ cui_source' = a
        /\ mentions' = [mentions EXCEPT ![SelectSource(a.sources).cui] = @ + 1]
    /\ n_attrs' = n_attrs + 1
    /\ pc' = "raised"
    /\ exc' = "NotImplementedError"
    /\ fresh_pass' = [fresh_pass EXCEPT !.exc = "NotImplementedError"]
    /\ UNCHANGED <<calls, text_source, nlp_config, med_statement_tracker,
                   result, log, n_created, n_id_makers>>

\* lines 71-107: the first source is a MedicationAnnotation
AddMention ==
    /\ UNCHANGED <<locVars, svcVars>>
    /\ pc = "loop"
    /\ n_attrs < MaxAttrs
    /\ \E a \in AttributeSources :
        /\ a.sources # <<>>
        /\ SelectSource(a.sources).kind = "MedicationAnnotation"
        /\ LET med_ind == SelectSource(a.sources)
               r == ProcessMention(med_statement_tracker, a, med_ind,
                                   text_source.subject,
                                   nlp_config.insight_id_start,
                                   <<calls, n_created + 1>>)
               f == ProcessMention(fresh_pass.tracker, a, med_ind,
                                   text_source.subject,
                                   nlp_config.insight_id_start,
                                   <<calls, Len(fresh_pass.tracker) + 1>>)
           IN  /\ cui_source' = a
               /\ fresh_pass' = [tracker |-> f.tracker, exc |-> f.exc]
               /\ mentions' = [mentions EXCEPT ![med_ind.cui] = @ + 1]
               /\ med_statement_tracker' = r.tracker
               /\ n_created' = n_created + (IF r.created THEN 1 ELSE 0)
               /\ n_id_makers' = n_id_makers + (IF r.created THEN 1 ELSE 0)
               /\ log' = log \o Repeat("exception", r.logs)
               /\ exc' = r.exc
               /\ pc' = IF r.exc = "" THEN "loop" ELSE "raised"
    /\ n_attrs' = n_attrs + 1
    /\ UNCHANGED <<calls, text_source, nlp_config, result>>

\* lines 114-115: the generator is exhausted and nothing was tracked
ReturnNone ==
    /\ UNCHANGED <<locVars, svcVars>>
    /\ pc = "loop"
    /\ med_statement_tracker = <<>>
    /\ pc' = "returned"
    /\ result' = NoneResult
    /\ UNCHANGED <<calls, text_source, nlp_config, cui_source, n_attrs,
                   med_statement_tracker, exc, log, n_created, n_id_makers,
                   mentions, fresh_pass>>

\* ReturnStatements without the test of line 114
ReturnStatements_Unguarded ==
    /\ UNCHANGED <<locVars, svcVars>>
    /\ pc = "loop"
    /\ pc' = "returned"
    /\ med_statement_tracker' =
           [i \in 1..Len(med_statement_tracker) |->
               [med_statement_tracker[i] EXCEPT
                   !.fhir_resource = MarkedStatements(med_statement_tracker)[i]]]
    /\ result' = [t |-> "list", v |-> MarkedStatements(med_statement_tracker)]
    /\ UNCHANGED <<calls, text_source, nlp_config, cui_source, n_attrs, exc,
                   log, n_created, n_id_makers, mentions, fresh_pass>>

\* lines 117-123: the generator is exhausted, the tracked statements are
\* marked and returned
ReturnStatements ==
    /\ UNCHANGED <<locVars, svcVars>>
    /\ pc = "loop"
    /\ med_statement_tracker # <<>>
    /\ pc' = "returned"
    /\ med_statement_tracker' =
           [i \in 1..Len(med_statement_tracker) |->
               [med_statement_tracker[i] EXCEPT
                   !.fhir_resource = MarkedStatements(med_statement_tracker)[i]]]
    /\ result' = [t |-> "list", v |-> MarkedStatements(med_statement_tracker)]
    /\ UNCHANGED <<calls, text_source, nlp_config, cui_source, n_attrs, exc,
                   log, n_created, n_id_makers, mentions, fresh_pass>>

Bundles == UNION {[1..n -> Resources] : n \in 1..MaxBundle}

\* a bundle is posted; its resources are analysed in order
PostBundle ==
    /\ UNCHANGED <<medVars, svcVars>>
    /\ loc_pc = "idle"
    /\ loc_pc' = "running"
    /\ bundle' \in Bundles
    /\ extractors_arg' \in ExtractorArgs
    /\ pos' = 1
    /\ concepts' = <<>>
    /\ loc_exc' = ""
    /\ UNCHANGED module_extractors

\* get_concepts_for_nlp_analysis for the next resource of the bundle
AnalyzeResource ==
    /\ UNCHANGED <<medVars, svcVars>>
    /\ loc_pc = "running"
    /\ pos <= Len(bundle)
    /\ LET r == get_concepts_for_nlp_analysis(bundle[pos], extractors_arg)
       IN  IF r.exc = ""
           THEN /\ concepts' = Append(concepts, r.val)
                /\ pos' = pos + 1
                /\ UNCHANGED <<loc_pc, loc_exc>>
           ELSE /\ loc_pc' = "raised"
                /\ loc_exc' = r.exc
                /\ UNCHANGED <<concepts, pos>>
    /\ UNCHANGED <<bundle, extractors_arg, module_extractors>>

\* every resource of the bundle has been analysed
FinishBundle ==
    /\ UNCHANGED <<medVars, svcVars>>
    /\ loc_pc = "running"
    /\ pos > Len(bundle)
    /\ loc_pc' = "done"
    /\ UNCHANGED <<bundle, extractors_arg, pos, concepts, loc_exc,
                   module_extractors>>

NextLocator ==
    \/ PostBundle
    \/ AnalyzeResource
    \/ FinishBundle

SpecLocator == Init /\ [][NextLocator]_vars

Next ==
    \/ Call
    \/ SkipAttribute
    \/ RaiseUnsupported
    \/ AddMention
    \/ ReturnNone
    \/ ReturnStatements

Spec == Init /\ [][Next]_vars

\* ------------------------------------------------------------------------
\* discoverInsights: a resource or a bundle is posted; the concepts of its
\* resources are enriched, resources are derived from the text of its
\* diagnostic reports, and the bundle of what was built is returned
\* ------------------------------------------------------------------------
NlpServices == {"acd", "quickumls"}

SNOMED_URL == "http://snomed.info/sct"

\* what an NLP service can find for a text: (system, code) pairs in order
NlpResponses(nlp) ==
    IF nlp = "acd"
    THEN {<<>>,
          <<<<UMLS_URL, <<"C1">>>>>>,
          <<<<UMLS_URL, <<"C1">>>>, <<SNOMED_URL, <<"22298006">>>>>>}
    ELSE {<<>>,
          <<<<UMLS_URL, <<"C1">>>>>>,
          <<<<UMLS_URL, <<"C1">>>>, <<UMLS_URL, <<"C2">>>>,
            <<UMLS_URL, <<"C1">>>>>>}

HeartAttack ==
    [t |-> "CodeableConcept", text |-> <<"heart attack">>, coding |-> <<>>]

\* a resource of a request: presentedForm has the texts of the attachments
SvcResource(type, code, presentedForm) ==
    [type |-> type, code |-> code, meta |-> <<>>,
     presentedForm |-> presentedForm]

PostedResources ==
    { SvcResource("Condition", HeartAttack, <<>>),
      SvcResource("Condition",
                  [HeartAttack EXCEPT
                      !.coding = <<[system |-> UMLS_URL, code |-> <<"C1">>,
                                    display |-> PyNone]>>],
                  <<>>),
      SvcResource("Condition", [HeartAttack EXCEPT !.text = PyNone], <<>>),
      SvcResource("AllergyIntolerance", NoCode, <<>>),
      SvcResource("DiagnosticReport", NoCode, <<>>),
      SvcResource("DiagnosticReport", NoCode, <<<<"heart attack">>>>) }

\* a resource posted alone, or a bundle of resources
Requests ==
    {[as_bundle |-> FALSE, resources |-> <<r>>] : r \in PostedResources}
        \cup {[as_bundle |-> TRUE, resources |-> b] :
                  b \in UNION {[1..n -> PostedResources] : n \in 1..MaxBundle}}

\* the text of a diagnostic report: the texts of its attachments, joined
RECURSIVE ReportText(_)
ReportText(report) ==
    IF report.presentedForm = <<>>
    THEN <<>>
    ELSE Head(report.presentedForm)
             \o ReportText([report EXCEPT !.presentedForm = Tail(@)])

\* a report has text when its text is anything but None
HasReportText_NotNone(report) == ReportText(report) # PyNone

\* a report without text is not sent to the NLP service
HasReportText(report) == Truthy(ReportText(report))

\* the identifier of an insight: the system of the NLP service and a value
InsightId(nlp, value) == <<nlp, value>>

\* the codes go to the codeable concept in order, each at most once
RECURSIVE AddCodes(_, _)
AddCodes(codeable_concept, codes) ==
    IF codes = <<>>
    THEN codeable_concept
    ELSE AddCodes(append_coding(codeable_concept, Head(codes)[1],
                                Head(codes)[2], PyNone),
                  Tail(codes))

\* EnrichConcept that sets the codings and the insights of the resource to
\* those of this pass
EnrichConcept_Replaces(resource, concept_ref, nlp, codes) ==
    add_insight_to_meta(
        [resource EXCEPT
            !.code = AddCodes([concept_ref.code_ref EXCEPT !.coding = <<>>],
                              codes),
            !.meta = <<>>],
        InsightId(nlp, 1), concept_ref.path)

\* the codes found for the text of the concept are added to the concept the
\* reference refers to, and one insight of the NLP service to the meta
EnrichConcept(resource, concept_ref, nlp, codes) ==
    add_insight_to_meta(
        [resource EXCEPT !.code = AddCodes(concept_ref.code_ref, codes)],
        InsightId(nlp, 1), concept_ref.path)

\* the Condition derived from the text of a report
DeriveCondition(report, nlp, codes) ==
    add_insight_to_meta(
        SvcResource("Condition",
                    AddCodes([HeartAttack EXCEPT !.text = ReportText(report)],
                             codes),
                    <<>>),
        InsightId(nlp, 1), "DiagnosticReport.presentedForm")

\* the resource of the request that is processed next
SvcResourceAt == svc_request.resources[svc_pos]

StartRequest(request, pass) ==
    /\ svc_request' = request
    /\ svc_pc' = "running"
    /\ svc_pos' = 1
    /\ svc_response' = <<>>
    /\ svc_entries' = <<>>
    /\ svc_builder_calls' = 0
    /\ svc_pass' = pass
    /\ UNCHANGED svc_nlp

\* the other NLP service becomes the configured one
ConfigureNlp ==
    /\ UNCHANGED <<medVars, locVars>>
    /\ svc_pc \in {"idle", "responded"}
    /\ svc_nlp' \in NlpServices \ {svc_nlp}
    /\ UNCHANGED <<svc_pc, svc_request, svc_pos, svc_response, svc_entries,
                   svc_builder_calls, svc_pass>>

\* POST /discoverInsights with a resource or a bundle
PostRequest ==
    /\ UNCHANGED <<medVars, locVars>>
    /\ svc_pc = "idle"
    /\ \E request \in Requests : StartRequest(request, 1)

\* POST /discoverInsights with a bundle of the first resource that the
\* response before has returned
PostEnriched ==
    /\ UNCHANGED <<medVars, locVars>>
    /\ svc_pc = "responded"
    /\ svc_entries # <<>>
    /\ svc_pass < MaxPasses
    /\ StartRequest([as_bundle |-> TRUE, resources |-> <<svc_entries[1]>>],
                    svc_pass + 1)

\* the references to the concepts of the resource that have a text
SvcConcepts == get_concepts_for_nlp_analysis(SvcResourceAt, NotSupplied)

\* nothing of the resource is sent to the NLP service: no concept with a
\* text and no text of a report
SkipResource ==
    /\ UNCHANGED <<medVars, locVars>>
    /\ svc_pc = "running"
    /\ svc_pos <= Len(svc_request.resources)
    /\ SvcConcepts.exc = ""
    /\ SvcConcepts.val = <<>>
    /\ ~(SvcResourceAt.type = "DiagnosticReport"
         /\ HasReportText(SvcResourceAt))
    /\ svc_pos' = svc_pos + 1
    /\ UNCHANGED <<svc_pc, svc_nlp, svc_request, svc_response, svc_entries,
                   svc_builder_calls, svc_pass>>

\* the text of the concept goes to the NLP service; when codes are found
\* the resource is updated and becomes an entry of the response
EnrichResource ==
    /\ UNCHANGED <<medVars, locVars>>
    /\ svc_pc = "running"
    /\ svc_pos <= Len(svc_request.resources)
    /\ SvcConcepts.exc = ""
    /\ SvcConcepts.val # <<>>
    /\ \E codes \in NlpResponses(svc_nlp) :
           /\ svc_response' = codes
           /\ IF codes = <<>>
              THEN UNCHANGED <<svc_entries, svc_builder_calls>>
              ELSE /\ svc_entries' =
                          Append(svc_entries,
                                 EnrichConcept(SvcResourceAt,
                                               SvcConcepts.val[1],
                                               svc_nlp, codes))
                   /\ svc_builder_calls' = svc_builder_calls + 1
    /\ svc_pos' = svc_pos + 1
    /\ UNCHANGED <<svc_pc, svc_nlp, svc_request, svc_pass>>

\* the text of the report goes to the NLP service and what it finds to the
\* builder; a resource that is derived becomes an entry of the response
DeriveFromReport ==
    /\ UNCHANGED <<medVars, locVars>>
    /\ svc_pc = "running"
    /\ svc_pos <= Len(svc_request.resources)
    /\ SvcResourceAt.type = "DiagnosticReport"
    /\ HasReportText(SvcResourceAt)
    /\ \E codes \in NlpResponses(svc_nlp) :
           /\ svc_response' = codes
           /\ svc_entries' =
                  IF codes = <<>>
                  THEN svc_entries
                  ELSE Append(svc_entries,
                              DeriveCondition(SvcResourceAt, svc_nlp, codes))
    /\ svc_builder_calls' = svc_builder_calls + 1
    /\ svc_pos' = svc_pos + 1
    /\ UNCHANGED <<svc_pc, svc_nlp, svc_request, svc_pass>>

\* an exception of get_concepts_for_nlp_analysis ends the request
FailRequest ==
    /\ UNCHANGED <<medVars, locVars>>
    /\ svc_pc = "running"
    /\ svc_pos <= Len(svc_request.resources)
    /\ SvcConcepts.exc # ""
    /\ svc_pc' = "raised"
    /\ UNCHANGED <<svc_nlp, svc_request, svc_pos, svc_response, svc_entries,
                   svc_builder_calls, svc_pass>>

\* every resource has been processed: the bundle is returned with status 200
Respond ==
    /\ UNCHANGED <<medVars, locVars>>
    /\ svc_pc = "running"
    /\ svc_pos > Len(svc_request.resources)
    /\ svc_pc' = "responded"
    /\ UNCHANGED <<svc_nlp, svc_request, svc_pos, svc_response, svc_entries,
                   svc_builder_calls, svc_pass>>

NextService ==
    \/ ConfigureNlp
    \/ PostRequest
    \/ PostEnriched
    \/ SkipResource
    \/ EnrichResource
    \/ DeriveFromReport
    \/ FailRequest
    \/ Respond

SpecService == Init /\ [][NextService]_vars

\* ------------------------------------------------------------------------
\* Properties of create_med_statements_from_insights
\* ------------------------------------------------------------------------
ReturnedList == pc = "returned" /\ result.t = "list"

\* the first source of the attribute taken last
FirstSource == Head(cui_source.sources)

NoDuplicateCoding(coding) ==
    \A i, j \in 1..Len(coding) :
        i # j => ~(coding[i].system = coding[j].system
                   /\ coding[i].code = coding[j].code)

\* C1: after the pass has completed, no returned MedicationStatement has two
\* codings with the same system and code, however many mentions of the
\* concept there were and whatever codes they carried.
C1_NoDuplicateCodings ==
    ReturnedList =>
        \A k \in 1..Len(result.v) : NoDuplicateCoding(Coding(result.v[k]))

\* Three mentions of one concept, the last with rxNormID "1,1": the record
\* is returned with three insights and no coding twice.
C1_Witness ==
    /\ ReturnedList
    /\ cui_source.sources # <<>>
    /\ FirstSource.kind = "MedicationAnnotation"
    /\ _get_drug_from_annotation(FirstSource).val.rxNormID = <<"1", ",", "1">>
    /\ \E k \in 1..Len(result.v) :
           /\ med_statement_tracker[k].key = FirstSource.cui
           /\ Len(result.v[k].meta) = 3
           /\ Len(Coding(result.v[k])) >= 2

\* C2: every returned MedicationStatement carries as many insights as the
\* pass had attributes with sources whose first source has the concept
\* identifier of the record.
C2_OneInsightPerMention ==
    ReturnedList =>
        /\ Len(result.v) = Len(med_statement_tracker)
        /\ \A k \in 1..Len(result.v) :
               Len(result.v[k].meta) = mentions[med_statement_tracker[k].key]

\* Two mentions with the same drug ("ASA": U1 and rxNorm 1): the text of the
\* record says that the first mention had that drug, so the second mention
\* brought no new code, and the record has two insights.
C2_Witness ==
    /\ ReturnedList
    /\ n_attrs = 2
    /\ cui_source.sources # <<>>
    /\ FirstSource.kind = "MedicationAnnotation"
    /\ _get_drug_from_annotation(FirstSource).val
           = Drug(<<"U1">>, <<"ASA">>, <<"1">>)
    /\ Len(result.v) = 1
    /\ result.v[1].medicationCodeableConcept.text = <<"ASA">>
    /\ Len(Coding(result.v[1])) = 2
    /\ Len(result.v[1].meta) = 2

MentionedCuis == {c \in Cuis : mentions[c] > 0}

\* an attribute with a MedicationAnnotation first was taken and the loop
\* goes on
MentionStep ==
    /\ pc = "loop"
    /\ pc' = "loop"
    /\ n_attrs' = n_attrs + 1
    /\ cui_source'.sources # <<>>

\* the step constructed one statement and one id generator, tracked last
CreatesEntry(cui) ==
    /\ Len(med_statement_tracker') = Len(med_statement_tracker) + 1
    /\ med_statement_tracker'[Len(med_statement_tracker')].key = cui
    /\ SubSeq(med_statement_tracker', 1, Len(med_statement_tracker)) =
           med_statement_tracker
    /\ n_created' = n_created + 1
    /\ n_id_makers' = n_id_makers + 1

\* the step constructed nothing and went on with the tracked objects
ReusesEntry(cui) ==
    /\ Len(med_statement_tracker') = Len(med_statement_tracker)
    /\ n_created' = n_created
    /\ n_id_makers' = n_id_makers
    /\ \A i \in 1..Len(med_statement_tracker) :
           /\ med_statement_tracker'[i].key = med_statement_tracker[i].key
           /\ med_statement_tracker'[i].fhir_resource.oid =
                  med_statement_tracker[i].fhir_resource.oid
           /\ med_statement_tracker'[i].id_maker.cui =
                  med_statement_tracker[i].id_maker.cui
           /\ med_statement_tracker'[i].id_maker.next >=
                  med_statement_tracker[i].id_maker.next

\* C3: the first usable mention of a concept identifier constructs one
\* statement and one id generator, later mentions reuse them; the returned
\* records are as many as the distinct identifiers mentioned, and no two of
\* them are the same object or have the same identifier.
C3_OneRecordPerConcept ==
    /\ [](ReturnedList =>
            /\ Len(result.v) = Cardinality(MentionedCuis)
            /\ n_created = Len(result.v)
            /\ n_id_makers = Len(result.v)
            /\ \A i, j \in 1..Len(result.v) :
                   i # j => /\ result.v[i].oid # result.v[j].oid
                            /\ med_statement_tracker[i].key #
                                   med_statement_tracker[j].key)
    /\ [][MentionStep =>
            LET cui == Head(cui_source'.sources).cui
            IN  IF TrackerHas(med_statement_tracker, cui)
                THEN ReusesEntry(cui)
                ELSE CreatesEntry(cui)]_vars

\* Three mentions, two of one concept and one of another: two records.
C3_Witness ==
    /\ ReturnedList
    /\ n_attrs = 3
    /\ Len(result.v) = 2
    /\ \E c \in Cuis : mentions[c] = 2

\* C4: the function returns None exactly when the pass had no attribute
\* with sources, and a list that it returns is never empty.
C4_NoneIffNothingUsable ==
    pc = "returned" =>
        /\ result.t \in {"none", "list"}
        /\ result.t = "none" <=> MentionedCuis = {}
        /\ result.t = "list" => Len(result.v) > 0

\* None is returned after two attributes, both without sources.
C4_Witness ==
    /\ pc = "returned"
    /\ result.t = "none"
    /\ n_attrs = 2
    /\ log = <<"info", "info">>

AllCategories(statements, n) ==
    \A k \in 1..Len(statements) : statements[k].category = n

\* C5: while the attributes are processed no tracked statement has the
\* derived-by-NLP category, and every returned statement has it once.
C5_CategoryOnceAtTheEnd ==
    /\ pc \in {"loop", "raised"} =>
           \A i \in 1..Len(med_statement_tracker) :
               med_statement_tracker[i].fhir_resource.category = 0
    /\ ReturnedList => AllCategories(result.v, 1)

\* Two records are returned, one of them from two mentions.
C5_Witness ==
    /\ ReturnedList
    /\ Len(result.v) = 2
    /\ \E k \in 1..2 : Len(result.v[k].meta) = 2
    /\ AllCategories(result.v, 1)

\* an attribute with sources whose first source is no MedicationAnnotation
\* is taken
UnsupportedStep ==
    /\ pc = "loop"
    /\ n_attrs' = n_attrs + 1
    /\ cui_source'.sources # <<>>
    /\ Head(cui_source'.sources).kind # "MedicationAnnotation"

\* C6: when the first source of an attribute is not a MedicationAnnotation
\* the invocation ends with NotImplementedError and returns nothing, also
\* not the statements tracked before.
C6_UnsupportedSourceRaises ==
    /\ [][UnsupportedStep =>
            /\ pc' = "raised"
            /\ exc' = "NotImplementedError"
            /\ result' = NoResult]_vars
    /\ [](pc = "raised" => result = NoResult)
    /\ [](pc = "raised" /\ exc = "NotImplementedError" =>
            /\ cui_source.sources # <<>>
            /\ FirstSource.kind # "MedicationAnnotation")

\* NotImplementedError after two mentions had been tracked.
C6_Witness ==
    /\ pc = "raised"
    /\ exc = "NotImplementedError"
    /\ n_attrs = 3
    /\ Len(med_statement_tracker) = 2
    /\ result = NoResult

\* an attribute without sources is taken
SkipStep ==
    /\ pc = "loop"
    /\ n_attrs' = n_attrs + 1
    /\ cui_source'.sources = <<>>

\* C7: an attribute without sources raises nothing, logs a diagnostic and
\* leaves the tracker (statements, insights, id generators) as it was, so
\* that the attributes after it meet the state they would meet without it.
C7_EmptySourcesSkipped ==
    [][SkipStep =>
          /\ pc' = "loop"
          /\ exc' = ""
          /\ log' = Append(log, "info")
          /\ UNCHANGED <<med_statement_tracker, n_created, n_id_makers,
                         mentions, result>>
          /\ \A a \in AttributeSources :
                 a.sources # <<>>
                     /\ Head(a.sources).kind = "MedicationAnnotation" =>
                 ProcessMention(med_statement_tracker', a, Head(a.sources),
                                text_source'.subject,
                                nlp_config'.insight_id_start,
                                <<calls', n_created' + 1>>)
                     = ProcessMention(med_statement_tracker, a, Head(a.sources),
                                      text_source.subject,
                                      nlp_config.insight_id_start,
                                      <<calls, n_created + 1>>)]_vars

\* A mention, an attribute without sources, a mention of the same concept:
\* one record with the insights 1 and 2.
C7_Witness ==
    /\ ReturnedList
    /\ n_attrs = 3
    /\ log = <<"info">>
    /\ Len(result.v) = 1
    /\ Len(result.v[1].meta) = 2
    /\ result.v[1].meta[2].id[2] = result.v[1].meta[1].id[2] + 1

\* the payloads of the claim: drug absent or empty, name1 absent or empty,
\* name1 entry not a mapping, rxNormID null
MalformedDrug(annotation) ==
    \/ _get_drug_from_annotation(annotation).logged
    \/ ~_get_drug_from_annotation(annotation).val.mapping
    \/ _get_drug_from_annotation(annotation).val.rxNormID = PyNone

\* C8: a mention with a malformed drug payload does not end the pass: no
\* exception, the insight of the mention is attached, no code is added.
C8_MalformedDrugNeverAborts ==
    [][/\ pc = "loop"
       /\ n_attrs' = n_attrs + 1
       /\ cui_source'.sources # <<>>
       /\ Head(cui_source'.sources).kind = "MedicationAnnotation"
       /\ MalformedDrug(Head(cui_source'.sources))
       => /\ pc' = "loop"
          /\ exc' = ""
          /\ LET cui == Head(cui_source'.sources).cui
                 i == TrackerIndex(med_statement_tracker', cui)
             IN  /\ TrackerHas(med_statement_tracker', cui)
                 /\ Len(med_statement_tracker'[i].fhir_resource.meta) =
                        mentions'[cui]
                 /\ TrackerHas(med_statement_tracker, cui) =>
                        Coding(med_statement_tracker'[i].fhir_resource) =
                            Coding(med_statement_tracker[
                                TrackerIndex(med_statement_tracker, cui)
                            ].fhir_resource)
                 /\ ~TrackerHas(med_statement_tracker, cui) =>
                        Coding(med_statement_tracker'[i].fhir_resource) = <<>>
      ]_vars

\* ------------------------------------------------------------------------
\* Properties of get_concepts_for_nlp_analysis
\* ------------------------------------------------------------------------
HasText(resource) == resource.code.t # "none" /\ Truthy(resource.code.text)

IsConditionOrAllergy(resource) ==
    resource.type \in {"AllergyIntolerance", "Condition"}

\* C9: for a Condition or an AllergyIntolerance a reference is returned
\* only when the code has a text, never more than one, and a record without
\* text (empty, null, no code at all) gives no reference and no exception.
C9_ReferenceOnlyForText ==
    /\ \A i \in 1..Len(concepts) :
           IsConditionOrAllergy(bundle[i]) =>
               /\ Len(concepts[i]) <= 1
               /\ concepts[i] # <<>> => HasText(bundle[i])
    /\ loc_pc = "raised" =>
           ~(IsConditionOrAllergy(bundle[pos]) /\ ~HasText(bundle[pos]))

\* the dict that line 142 selects for the argument
SelectedExtractors ==
    IF extractors_arg.t = "dict" /\ DOMAIN extractors_arg.v # {}
    THEN extractors_arg.v
    ELSE module_extractors

HasNoExtractor(resource) == resource.type \notin DOMAIN SelectedExtractors

\* C10: a resource whose type has no entry in the dict of extractors gives
\* an empty sequence and no exception; a bundle is never ended by such a
\* resource, and when the bundle is done every resource of it that has an
\* extractor and a text has its reference.
C10_UnknownKindIsNoOp ==
    /\ \A i \in 1..Len(concepts) :
           HasNoExtractor(bundle[i]) => concepts[i] = <<>>
    /\ loc_pc = "raised" => ~HasNoExtractor(bundle[pos])
    /\ loc_pc = "done" =>
           /\ Len(concepts) = Len(bundle)
           /\ \A i \in 1..Len(bundle) :
                  ~HasNoExtractor(bundle[i]) /\ HasText(bundle[i]) =>
                      /\ Len(concepts[i]) = 1
                      /\ concepts[i][1].resource = bundle[i]

\* A bundle of a Patient and an AllergyIntolerance with text is done: no
\* reference for the Patient, one for the AllergyIntolerance after it.
C10_Witness ==
    /\ loc_pc = "done"
    /\ Len(bundle) = 2
    /\ bundle[1].type = "Patient"
    /\ bundle[2].type = "AllergyIntolerance"
    /\ concepts[1] = <<>>
    /\ Len(concepts[2]) = 1

\* the suffixes of the insight ids of the statement, in the order of its meta
IdSuffixes(med_statement) ==
    [k \in 1..Len(med_statement.meta) |-> med_statement.meta[k].id[2]]

\* C11: the ids of the insights of a tracked statement are
\* insight_id_start, insight_id_start + 1, ... in the order of the mentions
\* (so distinct and increasing), all made for the concept of the statement,
\* and its id generator has been advanced once per insight and not
\* otherwise.
C11_InsightIdsIncrease ==
    \A i \in 1..Len(med_statement_tracker) :
        LET entry == med_statement_tracker[i]
        IN  /\ \A k \in 1..Len(entry.fhir_resource.meta) :
                   entry.fhir_resource.meta[k].id =
                       <<entry.key, nlp_config.insight_id_start + k - 1>>
            /\ entry.id_maker.cui = entry.key
            /\ entry.id_maker.next =
                   nlp_config.insight_id_start + Len(entry.fhir_resource.meta)

\* Three attributes, one without sources and two mentions of one concept:
\* the statement has the ids start, start + 1.
C11_Witness ==
    /\ ReturnedList
    /\ n_attrs = 3
    /\ "info" \in {log[k] : k \in 1..Len(log)}
    /\ \E i \in 1..Len(result.v) :
           IdSuffixes(result.v[i]) =
               <<nlp_config.insight_id_start, nlp_config.insight_id_start + 1>>

\* what an invocation returns when its loop ends with this tracker
ResultOf(tracker) ==
    IF tracker = <<>>
    THEN NoneResult
    ELSE [t |-> "list", v |-> MarkedStatements(tracker)]

\* C14: the tracker and the id generators are locals of one invocation.
\* Every invocation starts its loop with an empty tracker, its statements
\* are objects constructed in this invocation, and its tracker, exception
\* and result are those of an invocation that processes the same
\* attributes with nothing before it.
C14_PassLocalState ==
    /\ pc = "loop" /\ n_attrs = 0 =>
           /\ med_statement_tracker = <<>>
           /\ n_created = 0
           /\ n_id_makers = 0
    /\ pc \in {"loop", "raised"} =>
           /\ med_statement_tracker = fresh_pass.tracker
           /\ exc = fresh_pass.exc
    /\ pc = "returned" => result = ResultOf(fresh_pass.tracker)
    /\ \A i \in 1..Len(med_statement_tracker) :
           /\ med_statement_tracker[i].fhir_resource.oid[1] = calls
           /\ Len(med_statement_tracker[i].fhir_resource.meta) > 0 =>
                  med_statement_tracker[i].fhir_resource.meta[1].id[2] =
                      nlp_config.insight_id_start

\* The second invocation returns a statement with two insights.
C14_Witness ==
    /\ calls = 2
    /\ ReturnedList
    /\ \E i \in 1..Len(result.v) :
           /\ result.v[i].oid[1] = 2
           /\ IdSuffixes(result.v[i]) =
                  <<nlp_config.insight_id_start,
                    nlp_config.insight_id_start + 1>>

\* an attribute with sources is taken
SourcesStep ==
    /\ pc = "loop"
    /\ n_attrs' = n_attrs + 1
    /\ cui_source'.sources # <<>>

\* the attribute with nothing but the first entry of its sources
FirstEntryOnly(attribute) ==
    [attribute EXCEPT !.sources = <<Head(attribute.sources)>>]

\* C17: what a step does with an attribute is what it does with the same
\* attribute reduced to the first entry of its sources: a first entry that
\* is no MedicationAnnotation raises whatever comes after it, and a
\* MedicationAnnotation is processed with no regard to the later entries.
C17_OnlyFirstSourceCounts ==
    [][SourcesStep =>
          LET first == Head(cui_source'.sources)
              r == ProcessMention(med_statement_tracker,
                                  FirstEntryOnly(cui_source'), first,
                                  text_source.subject,
                                  nlp_config.insight_id_start,
                                  <<calls, n_created + 1>>)
          IN  /\ mentions' = [mentions EXCEPT ![first.cui] = @ + 1]
              /\ IF first.kind # "MedicationAnnotation"
                 THEN /\ pc' = "raised"
                      /\ exc' = "NotImplementedError"
                      /\ UNCHANGED <<med_statement_tracker, n_created, log>>
                 ELSE /\ med_statement_tracker' = r.tracker
                      /\ exc' = r.exc
                      /\ pc' = IF r.exc = "" THEN "loop" ELSE "raised"
                      /\ n_created' = n_created + (IF r.created THEN 1 ELSE 0)]_vars

\* NotImplementedError for sources whose second entry is a
\* MedicationAnnotation.
C17_Witness ==
    /\ pc = "raised"
    /\ exc = "NotImplementedError"
    /\ Len(cui_source.sources) = 2
    /\ cui_source.sources[1].kind = "ConceptAnnotation"
    /\ cui_source.sources[2].kind = "MedicationAnnotation"

\* the (system, code) pairs that a drug dictionary carries
CodesOf(acd_drug) ==
    (IF acd_drug.cui \in {Absent, PyNone}
     THEN {}
     ELSE {<<UMLS_URL, acd_drug.cui>>})
    \cup
    (IF acd_drug.rxNormID \in {Absent, PyNone}
     THEN {}
     ELSE {<<RXNORM_URL, split(acd_drug.rxNormID, ",")[k]>> :
               k \in 1..Len(split(acd_drug.rxNormID, ","))})

\* the codings from position n + 1 on are codes of the drug that the
\* first n codings do not have
OnlyNewCodesAfter(coding, n, acd_drug) ==
    \A k \in (n + 1)..Len(coding) :
        /\ <<coding[k].system, coding[k].code>> \in CodesOf(acd_drug)
        /\ \A j \in 1..n :
               ~(coding[j].system = coding[k].system
                 /\ coding[j].code = coding[k].code)

\* C18: the first mention of a concept makes a statement with status
\* 'unknown', the subject of the source resource, the surface form of its
\* drug as text (None when there is no drug dictionary) and no codings but
\* those of this mention; a later mention keeps status, subject, text, the
\* codings and the insights that are there, and appends one insight and the
\* codes of its drug that are not there yet.
C18_MinimumFieldsFixedByFirstMention ==
    [][MentionStep =>
          LET first == Head(cui_source'.sources)
              got == _get_drug_from_annotation(first)
              new == med_statement_tracker'[
                         TrackerIndex(med_statement_tracker', first.cui)
                     ].fhir_resource
              old == med_statement_tracker[
                         TrackerIndex(med_statement_tracker, first.cui)
                     ].fhir_resource
          IN  /\ TrackerHas(med_statement_tracker', first.cui)
              /\ IF ~TrackerHas(med_statement_tracker, first.cui)
                 THEN /\ new.status = "unknown"
                      /\ new.subject = text_source.subject
                      /\ new.medicationCodeableConcept.text =
                             Get(got.val, "drugSurfaceForm")
                      /\ got.logged =>
                             new.medicationCodeableConcept.text = PyNone
                      /\ OnlyNewCodesAfter(Coding(new), 0, got.val)
                      /\ Len(new.meta) = 1
                 ELSE /\ new.status = old.status
                      /\ new.subject = old.subject
                      /\ new.medicationCodeableConcept.text =
                             old.medicationCodeableConcept.text
                      /\ SubSeq(Coding(new), 1, Len(Coding(old))) = Coding(old)
                      /\ OnlyNewCodesAfter(Coding(new), Len(Coding(old)),
                                           got.val)
                      /\ SubSeq(new.meta, 1, Len(old.meta)) = old.meta
                      /\ Len(new.meta) = Len(old.meta) + 1
              /\ \A c \in Cuis \ {first.cui} :
                     TrackerHas(med_statement_tracker, c) =>
                         /\ TrackerHas(med_statement_tracker', c)
                         /\ med_statement_tracker'[
                                TrackerIndex(med_statement_tracker', c)] =
                            med_statement_tracker[
                                TrackerIndex(med_statement_tracker, c)]]_vars

\* First mention with the surface form "ASA" (U1, rxNorm 1), second mention
\* "aspirin" (U1, rxNorm 1 and 2): the text is still "ASA", one coding and
\* one insight were appended.
C18_Witness ==
    /\ ReturnedList
    /\ n_attrs = 2
    /\ cui_source.sources # <<>>
    /\ FirstSource.kind = "MedicationAnnotation"
    /\ FirstSource.drug =
           [t |-> "list",
            v |-> <<[name1 |->
                        [t |-> "list",
                         v |-> <<Drug(<<"U1">>, <<"aspirin">>,
                                      <<"1", ",", "2">>)>>]]>>]
    /\ Len(result.v) = 1
    /\ result.v[1].status = "unknown"
    /\ result.v[1].subject = text_source.subject
    /\ result.v[1].medicationCodeableConcept.text = <<"ASA">>
    /\ Len(Coding(result.v[1])) = 3
    /\ Len(result.v[1].meta) = 2

C16_SuppliedMappingAloneDecides ==
    extractors_arg.t = "dict" =>
        /\ \A i \in 1..Len(concepts) :
               bundle[i].type \notin DOMAIN extractors_arg.v =>
                   concepts[i] = <<>>
        /\ loc_pc = "raised" =>
               bundle[pos].type \in DOMAIN extractors_arg.v

\* ------------------------------------------------------------------------
\* Properties of discoverInsights
\* ------------------------------------------------------------------------
\* the insights from position n + 1 on have ids that no insight before
\* them has
OnlyNewInsightsAfter(meta, n) ==
    \A k \in (n + 1)..Len(meta) : \A j \in 1..(k - 1) : meta[j].id # meta[k].id

\* the codings from position n + 1 on are codings that are not there before
OnlyNewCodingsAfter(coding, n) ==
    \A k \in (n + 1)..Len(coding) :
        \A j \in 1..(k - 1) :
            ~(coding[j].system = coding[k].system
              /\ coding[j].code = coding[k].code)

HasCoding(coding, system, code) ==
    \E k \in 1..Len(coding) : coding[k].system = system /\ coding[k].code = code

\* a resource that an earlier pass has returned is enriched, and none of
\* its insights is of the NLP service that is configured now
SecondPassStep ==
    /\ svc_pc = "running"
    /\ svc_pos <= Len(svc_request.resources)
    /\ svc_pos' = svc_pos + 1
    /\ svc_pass >= 2
    /\ svc_response' # <<>>
    /\ \A k \in 1..Len(SvcResourceAt.meta) :
           SvcResourceAt.meta[k].id[1] # svc_nlp

IsReportWithoutText(resource) ==
    resource.type = "DiagnosticReport" /\ resource.presentedForm = <<>>

\* the request has nothing but diagnostic reports without text
NoTextRequest ==
    /\ svc_request.resources # <<>>
    /\ \A k \in 1..Len(svc_request.resources) :
           IsReportWithoutText(svc_request.resources[k])

\* C13: a request of diagnostic reports without text, one posted alone or
\* some in a bundle, with acd or quickumls configured, does not fail, and
\* its response is a bundle without entries; for a report without text no
\* resource is built, whatever else the bundle has.
C13_NoTextNoDerivation ==
    /\ [](NoTextRequest =>
              /\ svc_pc # "raised"
              /\ svc_entries = <<>>
              /\ svc_builder_calls = 0)
    /\ [][(/\ svc_pc = "running"
           /\ svc_pos <= Len(svc_request.resources)
           /\ IsReportWithoutText(SvcResourceAt))
          => /\ svc_pc' # "raised"
             /\ svc_entries' = svc_entries
             /\ svc_builder_calls' = svc_builder_calls]_vars

\* A report without attachments was posted alone with quickumls configured:
\* status 200 and a bundle without entries.
C13_Witness ==
    /\ svc_pc = "responded"
    /\ svc_nlp = "quickumls"
    /\ ~svc_request.as_bundle
    /\ NoTextRequest
    /\ svc_entries = <<>>
    /\ svc_builder_calls = 0

====
